---- MODULE Spec2Model ----
(***************************************************************************)
(* Order service of dejobratic/tbd: the order aggregate, the in-memory and *)
(* Postgres order repositories, the in-memory and Postgres idempotency     *)
(* stores, the create-order pipeline (Service.CreateOrder and              *)
(* CreateOrderCommandHandler.Handle), Service.CancelOrder and the HTTP     *)
(* createOrder handler that guards the pipeline with the idempotency key.  *)
(*                                                                         *)
(* Strings are sequences of one-character strings.  An error is the chain  *)
(* of its messages, outermost first: fmt.Errorf("p: %w", e) is <<p>> \o e, *)
(* errors.Unwrap is Tail and the nil error is <<>>.  A nilable pointer is  *)
(* a sequence of length at most one.                                       *)
(***************************************************************************)
EXTENDS Integers, Sequences, FiniteSets, TLC

VARIABLES
    repoImpl,     \* which ports.OrderRepository is wired: "memory" or "postgres"
    idemImpl,     \* which ports.IdempotencyStore is wired: "memory" or "postgres"
    orders,       \* the Order Store: id -> domain.Order
    items,        \* the Idempotency Store: key -> ports.StoredResponse
    published,    \* ids for which an order.created event was delivered to the bus
    now,          \* the wall clock read by time.Now()
    req,          \* the HTTP createOrder executions in flight, one per connection
    last,         \* the exchange completed last: the request and the response written
    firstOK,      \* history: per key, the first 202 response handed to a caller
    firstSaved,   \* history: per key, the response of the first Save that committed
    overlapped,   \* history: per key, whether two executions with the key ever overlapped
    createdFor,   \* history: per key, the ids of the orders persisted on its behalf
    got,          \* the call made last on the Idempotency Store by a direct client
    call,         \* the call completed last on the service or the Order Store
    cancel,       \* the Service.CancelOrder executions in flight
    listed,       \* the List call completed last on the Order Store
    update,       \* the postgres Repository.UpdateStatus execution in flight
    twin          \* a memory and a postgres Repository given the same calls

vars == <<repoImpl, idemImpl, orders, items, published, now, req, last,
          firstOK, firstSaved, overlapped, createdFor, got, call, cancel, listed,
          update, twin>>

httpVars == <<req, last, firstOK, overlapped, createdFor>>
directVars == <<got, call, cancel, listed, update, twin>>

----------------------------------------------------------------------------
(* Bounds of the model *)

MaxEmailLen == 1
MaxAmount == 1
MaxOrders == 2
MaxClock == 1
NumReqs == 2
NumCancels == 2
MaxListed == 3
MaxPage == 3
MaxPageSize == 2

----------------------------------------------------------------------------
(* Values *)

None == <<>>
Some(x) == <<x>>
NoErr == <<>>

Impls == {"memory", "postgres"}

StatusPending == "pending"
StatusProcessing == "processing"
StatusCompleted == "completed"
StatusFailed == "failed"
StatusCanceled == "canceled"
Statuses == {StatusPending, StatusProcessing, StatusCompleted, StatusFailed, StatusCanceled}

DefaultPageSize == 20

StatusAccepted == 202
StatusBadRequest == 400
StatusInternalServerError == 500

Alphabet == {" ", "a", "@"}
Strings(n) == UNION {[1..k -> Alphabet] : k \in 0..n}

RECURSIVE TrimLeft(_)
TrimLeft(s) ==
    IF s # <<>> /\ Head(s) = " " THEN TrimLeft(Tail(s)) ELSE s

RECURSIVE TrimRight(_)
TrimRight(s) ==
    IF s # <<>> /\ s[Len(s)] = " " THEN TrimRight(SubSeq(s, 1, Len(s) - 1)) ELSE s

TrimSpaceKeepsBlanks(s) == s

TrimSpace(s) == TrimRight(TrimLeft(s))

Contains(s, c) == \E i \in 1..Len(s) : s[i] = c

----------------------------------------------------------------------------
(* domain.Order *)

ValidateWithoutAmountCheck(o) ==
    IF TrimSpace(o.customer_email) = <<>> THEN <<"customer_email is required">>
    ELSE IF ~Contains(o.customer_email, "@") THEN <<"customer_email must be valid">>
    ELSE NoErr

ValidateWithoutAtCheck(o) ==
    IF TrimSpace(o.customer_email) = <<>> THEN <<"customer_email is required">>
    ELSE IF o.amount_cents <= 0 THEN <<"amount_cents must be positive">>
    ELSE NoErr

Validate(o) ==
    IF TrimSpace(o.customer_email) = <<>> THEN <<"customer_email is required">>
    ELSE IF ~Contains(o.customer_email, "@") THEN <<"customer_email must be valid">>
    ELSE IF o.amount_cents <= 0 THEN <<"amount_cents must be positive">>
    ELSE NoErr

IsTerminal(o) == o.status \in {StatusCompleted, StatusFailed, StatusCanceled}

----------------------------------------------------------------------------
(* Order identifiers: hex.EncodeToString of bytes read from crypto/rand.    *)
(* The random bytes are modelled as the least value none of the persisted  *)
(* orders carries, which is the uniqueness the generator is relied on for. *)

HexDigits == <<"0", "1", "2", "3", "4", "5", "6", "7", "8", "9", "a", "b", "c", "d", "e", "f">>

RECURSIVE HexEncode(_)
HexEncode(buf) ==
    IF buf = <<>> THEN <<>>
    ELSE <<HexDigits[(Head(buf) \div 16) + 1], HexDigits[(Head(buf) % 16) + 1]>>
         \o HexEncode(Tail(buf))

randRead(os) ==
    <<CHOOSE n \in 0..255 :
        /\ HexEncode(<<n>>) \notin DOMAIN os
        /\ \A m \in 0..(n - 1) : HexEncode(<<m>>) \in DOMAIN os>>

generateOrderID(os) == HexEncode(randRead(os))

----------------------------------------------------------------------------
(* ports.OrderRepository: memory.Repository and postgres.Repository.       *)
(* Each method is one critical section (the mutex) or one SQL statement.   *)
(* dbFails is the outcome of the database round trip; the in-memory        *)
(* repository makes none.                                                  *)

Put(f, k, v) == [x \in DOMAIN f \cup {k} |-> IF x = k THEN v ELSE f[x]]

ErrNotFound == <<"order not found">>
ErrDatabase == <<"database unavailable">>
ErrUniqueViolation == <<"duplicate key value violates unique constraint">>
ErrCheckViolation == <<"new row violates check constraint">>

MemoryCreate(os, order) == [orders |-> Put(os, order.id, order), err |-> NoErr]

PostgresCreate(os, order, dbFails) ==
    IF dbFails THEN [orders |-> os, err |-> <<"insert order">> \o ErrDatabase]
    ELSE IF order.id \in DOMAIN os
        THEN [orders |-> os, err |-> <<"insert order">> \o ErrUniqueViolation]
    ELSE IF order.amount_cents <= 0 \/ order.status \notin Statuses
        THEN [orders |-> os, err |-> <<"insert order">> \o ErrCheckViolation]
    ELSE [orders |-> Put(os, order.id, order), err |-> NoErr]

RepoCreate(impl, os, order, dbFails) ==
    IF impl = "memory" THEN MemoryCreate(os, order) ELSE PostgresCreate(os, order, dbFails)

MemoryGetByID(os, id) ==
    IF id \notin DOMAIN os THEN [order |-> None, err |-> ErrNotFound]
    ELSE [order |-> Some(os[id]), err |-> NoErr]

PostgresGetByID(os, id, dbFails) ==
    IF dbFails THEN [order |-> None, err |-> <<"select order">> \o ErrDatabase]
    ELSE IF id \notin DOMAIN os THEN [order |-> None, err |-> ErrNotFound]
    ELSE [order |-> Some(os[id]), err |-> NoErr]

RepoGetByID(impl, os, id, dbFails) ==
    IF impl = "memory" THEN MemoryGetByID(os, id) ELSE PostgresGetByID(os, id, dbFails)

MemoryUpdateStatusKeepsTime(os, id, status, t) ==
    IF id \notin DOMAIN os THEN [orders |-> os, err |-> ErrNotFound]
    ELSE [orders |-> [os EXCEPT ![id].status = status], err |-> NoErr]

MemoryUpdateStatus(os, id, status, t) ==
    IF id \notin DOMAIN os THEN [orders |-> os, err |-> ErrNotFound]
    ELSE [orders |-> [os EXCEPT ![id].status = status, ![id].updated_at = t],
          err |-> NoErr]

PostgresUpdateStatus(os, id, status, t, dbFails) ==
    IF dbFails THEN [orders |-> os, err |-> <<"update order status">> \o ErrDatabase]
    ELSE IF id \notin DOMAIN os THEN [orders |-> os, err |-> ErrNotFound]
    ELSE IF status \notin Statuses
        THEN [orders |-> os, err |-> <<"update order status">> \o ErrCheckViolation]
    ELSE [orders |-> [os EXCEPT ![id].status = status, ![id].updated_at = t],
          err |-> NoErr]

RepoUpdateStatusWritesNothing(impl, os, id, status, t, dbFails) ==
    IF id \notin DOMAIN os THEN [orders |-> os, err |-> ErrNotFound]
    ELSE [orders |-> os, err |-> NoErr]

RepoUpdateStatus(impl, os, id, status, t, dbFails) ==
    IF impl = "memory" THEN MemoryUpdateStatus(os, id, status, t)
    ELSE PostgresUpdateStatus(os, id, status, t, dbFails)

\* The orders of a List: the stored orders the filter selects, in an order
\* the sort allows.  Orders with equal created_at may come in any order (the
\* map iteration and sort.Slice, or the database, decide).
Matching(os, filter) ==
    {id \in DOMAIN os : filter.status = None \/ os[id].status = filter.status[1]}

Arrangements(os, ids) ==
    {[i \in 1..Cardinality(ids) |-> os[f[i]]] :
        f \in {g \in [1..Cardinality(ids) -> ids] :
                  \A i, j \in 1..Cardinality(ids) : i # j => g[i] # g[j]}}

MemorySort(os, filter) ==
    {result \in Arrangements(os, Matching(os, filter)) :
        \A i, j \in 1..Len(result) :
            i < j => ~(result[j].created_at < result[i].created_at)}

MemoryPageOffByOne(result, filter) ==
    LET page == IF filter.page <= 0 THEN 1 ELSE filter.page
        pageSize == IF filter.page_size <= 0 THEN DefaultPageSize ELSE filter.page_size
        start == page * pageSize
        end == IF start + pageSize > Len(result) THEN Len(result) ELSE start + pageSize
    IN  IF start >= Len(result) THEN <<>> ELSE SubSeq(result, start + 1, end)

MemoryPage(result, filter) ==
    LET page == IF filter.page <= 0 THEN 1 ELSE filter.page
        pageSize == IF filter.page_size <= 0 THEN DefaultPageSize ELSE filter.page_size
        start == (page - 1) * pageSize
        end == IF start + pageSize > Len(result) THEN Len(result) ELSE start + pageSize
    IN  IF start >= Len(result) THEN <<>> ELSE SubSeq(result, start + 1, end)

MemoryList(os, filter) ==
    {[orders |-> MemoryPage(result, filter), err |-> NoErr] :
        result \in MemorySort(os, filter)}

PostgresOrderBy(os, filter) ==
    {rows \in Arrangements(os, Matching(os, filter)) :
        \A i, j \in 1..Len(rows) :
            i < j => rows[i].created_at >= rows[j].created_at}

PostgresLimitOffset(rows, limit, offset) ==
    IF offset >= Len(rows) THEN <<>>
    ELSE SubSeq(rows, offset + 1, IF offset + limit > Len(rows) THEN Len(rows)
                                  ELSE offset + limit)

PostgresList(os, filter, dbFails) ==
    LET page == IF filter.page <= 0 THEN 1 ELSE filter.page
        pageSize == IF filter.page_size <= 0 THEN DefaultPageSize ELSE filter.page_size
        offset == (page - 1) * pageSize
    IN  IF dbFails THEN {[orders |-> <<>>, err |-> <<"query orders">> \o ErrDatabase]}
        ELSE {[orders |-> PostgresLimitOffset(rows, pageSize, offset), err |-> NoErr] :
                 rows \in PostgresOrderBy(os, filter)}

RepoList(impl, os, filter, dbFails) ==
    IF impl = "memory" THEN MemoryList(os, filter) ELSE PostgresList(os, filter, dbFails)

----------------------------------------------------------------------------
(* ports.EventBus.  busFails is the outcome of the delivery.               *)

ErrBus == <<"event bus unavailable">>

PublishOrderCreated(pub, id, busFails) ==
    IF busFails THEN [published |-> pub, err |-> ErrBus]
    ELSE [published |-> pub \cup {id}, err |-> NoErr]

----------------------------------------------------------------------------
(* ports.IdempotencyStore: memory.Store and postgres.Store *)

MemoryStoreGet(it, key) ==
    IF key \notin DOMAIN it THEN [stored |-> None, err |-> NoErr]
    ELSE [stored |-> Some(it[key]), err |-> NoErr]

PostgresStoreGet(it, key, dbFails) ==
    IF dbFails THEN [stored |-> None, err |-> <<"select idempotency key">> \o ErrDatabase]
    ELSE IF key \notin DOMAIN it THEN [stored |-> None, err |-> NoErr]
    ELSE [stored |-> Some(it[key]), err |-> NoErr]

StoreGetAlwaysMisses(impl, it, key, dbFails) == [stored |-> None, err |-> NoErr]

StoreGet(impl, it, key, dbFails) ==
    IF impl = "memory" THEN MemoryStoreGet(it, key) ELSE PostgresStoreGet(it, key, dbFails)

MemoryStoreSave(it, key, response) == [items |-> Put(it, key, response), err |-> NoErr]

PostgresStoreSaveWithoutOrderID(it, key, response, dbFails) ==
    IF dbFails THEN [items |-> it, err |-> <<"insert idempotency key">> \o ErrDatabase]
    ELSE IF key \in DOMAIN it THEN [items |-> it, err |-> NoErr]
    ELSE [items |-> Put(it, key, [response EXCEPT !.OrderID = <<>>]), err |-> NoErr]

PostgresStoreSave(it, key, response, dbFails) ==
    IF dbFails THEN [items |-> it, err |-> <<"insert idempotency key">> \o ErrDatabase]
    ELSE IF key \in DOMAIN it THEN [items |-> it, err |-> NoErr]
    ELSE [items |-> Put(it, key, response), err |-> NoErr]

StoreSave(impl, it, key, response, dbFails) ==
    IF impl = "memory" THEN MemoryStoreSave(it, key, response)
    ELSE PostgresStoreSave(it, key, response, dbFails)

----------------------------------------------------------------------------
(* The create-order pipeline.  t1 and t2 are the two readings of the clock. *)
(* The result carries the stores as the calls left them and the port calls *)
(* made, in order.                                                         *)

NewOrderProcessing(id, input, t1, t2) ==
    [id |-> id, customer_email |-> input.customer_email,
     amount_cents |-> input.amount_cents, status |-> StatusProcessing,
     created_at |-> t1, updated_at |-> t2]

NewOrder(id, input, t1, t2) ==
    [id |-> id, customer_email |-> input.customer_email,
     amount_cents |-> input.amount_cents, status |-> StatusPending,
     created_at |-> t1, updated_at |-> t2]

ServiceCreateOrderPublishesFirst(impl, os, pub, input, t1, t2, dbFails, busFails) ==
    LET order == NewOrder(generateOrderID(os), input, t1, t2)
        p == PublishOrderCreated(pub, order.id, busFails)
        c == RepoCreate(impl, os, order, dbFails)
    IN  IF Validate(order) # NoErr
            THEN [order |-> None, err |-> Validate(order), orders |-> os,
                  published |-> pub, calls |-> <<>>]
        ELSE IF p.err # NoErr
            THEN [order |-> None,
                  err |-> <<"failed to publish event">> \o p.err,
                  orders |-> os, published |-> p.published,
                  calls |-> <<"PublishOrderCreated">>]
        ELSE IF c.err # NoErr
            THEN [order |-> None, err |-> c.err, orders |-> c.orders,
                  published |-> p.published, calls |-> <<"PublishOrderCreated", "Create">>]
        ELSE [order |-> Some(order), err |-> NoErr, orders |-> c.orders,
              published |-> p.published, calls |-> <<"PublishOrderCreated", "Create">>]

ServiceCreateOrderIgnoresStoreError(impl, os, pub, input, t1, t2, dbFails, busFails) ==
    LET order == NewOrder(generateOrderID(os), input, t1, t2)
        c == RepoCreate(impl, os, order, dbFails)
        p == PublishOrderCreated(pub, order.id, busFails)
    IN  IF Validate(order) # NoErr
            THEN [order |-> None, err |-> Validate(order), orders |-> os,
                  published |-> pub, calls |-> <<>>]
        ELSE IF p.err # NoErr
            THEN [order |-> Some(order),
                  err |-> <<"order saved but failed to publish event">> \o p.err,
                  orders |-> c.orders, published |-> p.published,
                  calls |-> <<"Create", "PublishOrderCreated">>]
        ELSE [order |-> Some(order), err |-> c.err, orders |-> c.orders,
              published |-> p.published, calls |-> <<"Create", "PublishOrderCreated">>]

ServiceCreateOrderDropsOrder(impl, os, pub, input, t1, t2, dbFails, busFails) ==
    LET order == NewOrder(generateOrderID(os), input, t1, t2)
        c == RepoCreate(impl, os, order, dbFails)
        p == PublishOrderCreated(pub, order.id, busFails)
    IN  IF Validate(order) # NoErr
            THEN [order |-> None, err |-> Validate(order), orders |-> os,
                  published |-> pub, calls |-> <<>>]
        ELSE IF c.err # NoErr
            THEN [order |-> None, err |-> c.err, orders |-> c.orders,
                  published |-> pub, calls |-> <<"Create">>]
        ELSE IF p.err # NoErr
            THEN [order |-> None,
                  err |-> <<"order saved but failed to publish event">> \o p.err,
                  orders |-> c.orders, published |-> p.published,
                  calls |-> <<"Create", "PublishOrderCreated">>]
        ELSE [order |-> Some(order), err |-> NoErr, orders |-> c.orders,
              published |-> p.published, calls |-> <<"Create", "PublishOrderCreated">>]

ServiceCreateOrder(impl, os, pub, input, t1, t2, dbFails, busFails) ==
    LET order == NewOrder(generateOrderID(os), input, t1, t2)
        c == RepoCreate(impl, os, order, dbFails)
        p == PublishOrderCreated(pub, order.id, busFails)
    IN  IF Validate(order) # NoErr
            THEN [order |-> None, err |-> Validate(order), orders |-> os,
                  published |-> pub, calls |-> <<>>]
        ELSE IF c.err # NoErr
            THEN [order |-> None, err |-> c.err, orders |-> c.orders,
                  published |-> pub, calls |-> <<"Create">>]
        ELSE IF p.err # NoErr
            THEN [order |-> Some(order),
                  err |-> <<"order saved but failed to publish event">> \o p.err,
                  orders |-> c.orders, published |-> p.published,
                  calls |-> <<"Create", "PublishOrderCreated">>]
        ELSE [order |-> Some(order), err |-> NoErr, orders |-> c.orders,
              published |-> p.published, calls |-> <<"Create", "PublishOrderCreated">>]

CommandValidate(cmd) ==
    IF TrimSpace(cmd.customer_email) = <<>> THEN <<"customer_email is required">>
    ELSE IF ~Contains(cmd.customer_email, "@") THEN <<"customer_email must be valid">>
    ELSE IF cmd.amount_cents <= 0 THEN <<"amount_cents must be positive">>
    ELSE NoErr

Handle(impl, os, pub, cmd, t1, t2, dbFails, busFails) ==
    LET order == NewOrder(generateOrderID(os), cmd, t1, t2)
        c == RepoCreate(impl, os, order, dbFails)
        p == PublishOrderCreated(pub, order.id, busFails)
    IN  IF CommandValidate(cmd) # NoErr
            THEN [order |-> None, err |-> CommandValidate(cmd), orders |-> os,
                  published |-> pub, calls |-> <<>>]
        ELSE IF Validate(order) # NoErr
            THEN [order |-> None, err |-> Validate(order), orders |-> os,
                  published |-> pub, calls |-> <<>>]
        ELSE IF c.err # NoErr
            THEN [order |-> None, err |-> c.err, orders |-> c.orders,
                  published |-> pub, calls |-> <<"Create">>]
        ELSE IF p.err # NoErr
            THEN [order |-> Some(order),
                  err |-> <<"order saved but failed to publish event">> \o p.err,
                  orders |-> c.orders, published |-> p.published,
                  calls |-> <<"Create", "PublishOrderCreated">>]
        ELSE [order |-> Some(order), err |-> NoErr, orders |-> c.orders,
              published |-> p.published, calls |-> <<"Create", "PublishOrderCreated">>]

\* commands.ObservableCommandHandler around CreateOrderCommandHandler; the
\* span, the log lines and the metrics are not part of the result.
ObservableHandle(impl, os, pub, cmd, t1, t2, dbFails, busFails) ==
    LET out == Handle(impl, os, pub, cmd, t1, t2, dbFails, busFails)
    IN  IF out.err # NoErr THEN [out EXCEPT !.order = None] ELSE out

----------------------------------------------------------------------------
(* JSON bodies.  json.Marshal of map{"order": order} keeps every field of   *)
(* the order; writeJSON encodes with json.Encoder, which ends the body with *)
(* a newline.                                                              *)

NoBody == [tag |-> "", order |-> None, error |-> NoErr, newline |-> FALSE]

jsonMarshalOrderWithoutID(order) ==
    [tag |-> "order", order |-> Some([order EXCEPT !.id = <<>>]), error |-> NoErr,
     newline |-> FALSE]

jsonMarshalOrder(order) ==
    [tag |-> "order", order |-> Some(order), error |-> NoErr, newline |-> FALSE]

jsonEncodeError(message) ==
    [tag |-> "error", order |-> None, error |-> message, newline |-> TRUE]

JSONHeaders == {<<"Content-Type", "application/json">>}

restoreHeaders(status) ==
    IF status = StatusAccepted THEN JSONHeaders \cup {<<"Retry-After", "0">>}
    ELSE JSONHeaders

----------------------------------------------------------------------------
(* HTTP POST /v1/orders: Handler.createOrder.  An execution takes three     *)
(* steps, one per call that reads or writes shared storage: the lookup     *)
(* (Get), the pipeline (Service.CreateOrder: Create, then                  *)
(* PublishOrderCreated) and the Save.  Everything else it does is local.   *)

Reqs == 1..NumReqs

KeyHeaders == {<<>>, <<" ">>, <<"k">>, <<" ", "k">>}
Keys == {TrimSpace(h) : h \in KeyHeaders} \ {<<>>}

Amounts == 0..MaxAmount
Inputs == {[json_ok |-> TRUE, customer_email |-> e, amount_cents |-> a] :
              e \in Strings(MaxEmailLen), a \in Amounts}
MalformedJSON == [json_ok |-> FALSE, customer_email |-> <<>>, amount_cents |-> 0]
RequestBodies == Inputs \cup {MalformedJSON}

EmptyMap == [x \in {} |-> x]

IdleReq ==
    [pc |-> "idle", key |-> <<>>, order |-> None, calls |-> <<>>,
     later |-> FALSE, quiet |-> FALSE, failed |-> ""]

NoExchange ==
    [header |-> <<>>, key |-> <<>>, payload |-> MalformedJSON, order |-> None,
     err |-> NoErr, code |-> 0, headers |-> {}, body |-> NoBody, calls |-> <<>>,
     later |-> FALSE, quiet |-> FALSE, failed |-> "", sent |-> MalformedJSON]

Exchange(st, header, payload, order, err, code, headers, body) ==
    [header |-> header, key |-> st.key, payload |-> payload, order |-> order,
     err |-> err, code |-> code, headers |-> headers, body |-> body,
     calls |-> st.calls, later |-> st.later, quiet |-> st.quiet, failed |-> st.failed,
     sent |-> payload]

\* An exchange that ended before the handler read the body: sent is the body
\* the client sent, and no payload was decoded.
Unread(x, sent) == [x EXCEPT !.sent = sent]

InFlight(key) == {q \in Reqs : req[q].pc # "idle" /\ req[q].key = key}

createOrderGetValidatesReplay(r, h, sent, dbFails) ==
    /\ req[r].pc = "idle"
    /\ dbFails => (TrimSpace(h) # <<>> /\ idemImpl = "postgres")
    /\ LET idemKey == TrimSpace(h)
           g == StoreGet(idemImpl, items, idemKey, dbFails)
           st == [IdleReq EXCEPT !.key = idemKey, !.calls = <<"Get">>,
                                 !.later = firstOK[idemKey] # None,
                                 !.quiet = InFlight(idemKey) = {}]
       IN  IF idemKey = <<>>
               THEN /\ last' = Unread(Exchange(IdleReq, h, MalformedJSON, None,
                                        <<"Idempotency-Key header required">>,
                                        StatusBadRequest, JSONHeaders,
                                        jsonEncodeError(<<"Idempotency-Key header required">>)),
                                        sent)
                    /\ UNCHANGED <<req, overlapped>>
           ELSE /\ overlapped' = [overlapped EXCEPT ![idemKey] =
                                      @ \/ InFlight(idemKey) # {}]
                /\ IF g.err # NoErr
                       THEN /\ last' = Unread(Exchange([st EXCEPT !.failed = "Get"], h,
                                                MalformedJSON, None, g.err,
                                                StatusInternalServerError, JSONHeaders,
                                                jsonEncodeError(g.err)), sent)
                            /\ UNCHANGED req
                   ELSE IF g.stored # None /\ (~sent.json_ok \/ Validate(sent) # NoErr)
                       THEN /\ last' = Exchange(st, h, sent, None,
                                                IF sent.json_ok THEN Validate(sent)
                                                ELSE <<"invalid JSON payload">>,
                                                StatusBadRequest, JSONHeaders,
                                                jsonEncodeError(IF sent.json_ok
                                                                    THEN Validate(sent)
                                                                ELSE <<"invalid JSON payload">>))
                            /\ UNCHANGED req
                   ELSE IF g.stored # None
                       THEN /\ last' = Unread(Exchange(st, h, MalformedJSON, None, NoErr,
                                                g.stored[1].StatusCode,
                                                restoreHeaders(g.stored[1].StatusCode),
                                                g.stored[1].Body), sent)
                            /\ UNCHANGED req
                   ELSE /\ req' = [req EXCEPT ![r] = [st EXCEPT !.pc = "miss"]]
                        /\ UNCHANGED last
    /\ UNCHANGED <<repoImpl, idemImpl, orders, items, published, now,
                   firstOK, firstSaved, createdFor, directVars>>

createOrderGet(r, h, sent, dbFails) ==
    /\ req[r].pc = "idle"
    /\ dbFails => (TrimSpace(h) # <<>> /\ idemImpl = "postgres")
    /\ LET idemKey == TrimSpace(h)
           g == StoreGet(idemImpl, items, idemKey, dbFails)
           st == [IdleReq EXCEPT !.key = idemKey, !.calls = <<"Get">>,
                                 !.later = firstOK[idemKey] # None,
                                 !.quiet = InFlight(idemKey) = {}]
       IN  IF idemKey = <<>>
               THEN /\ last' = Unread(Exchange(IdleReq, h, MalformedJSON, None,
                                        <<"Idempotency-Key header required">>,
                                        StatusBadRequest, JSONHeaders,
                                        jsonEncodeError(<<"Idempotency-Key header required">>)),
                                        sent)
                    /\ UNCHANGED <<req, overlapped>>
           ELSE /\ overlapped' = [overlapped EXCEPT ![idemKey] =
                                      @ \/ InFlight(idemKey) # {}]
                /\ IF g.err # NoErr
                       THEN /\ last' = Unread(Exchange([st EXCEPT !.failed = "Get"], h,
                                                MalformedJSON, None, g.err,
                                                StatusInternalServerError, JSONHeaders,
                                                jsonEncodeError(g.err)), sent)
                            /\ UNCHANGED req
                   ELSE IF g.stored # None
                       THEN /\ last' = Unread(Exchange(st, h, MalformedJSON, None, NoErr,
                                                g.stored[1].StatusCode,
                                                restoreHeaders(g.stored[1].StatusCode),
                                                g.stored[1].Body), sent)
                            /\ UNCHANGED req
                   ELSE /\ req' = [req EXCEPT ![r] = [st EXCEPT !.pc = "miss"]]
                        /\ UNCHANGED last
    /\ UNCHANGED <<repoImpl, idemImpl, orders, items, published, now,
                   firstOK, firstSaved, createdFor, directVars>>

createOrderRunSavesAfterError(r, payload, d1, d2, dbFails, busFails) ==
    /\ req[r].pc = "miss"
    /\ now + d1 + d2 <= MaxClock
    /\ dbFails => repoImpl = "postgres"
    /\ LET out == ServiceCreateOrder(repoImpl, orders, published, payload,
                                     now + d1, now + d1 + d2, dbFails, busFails)
           ran == [req[r] EXCEPT !.order = out.order, !.calls = @ \o out.calls,
                                 !.failed = IF dbFails THEN "Create"
                                            ELSE IF busFails THEN "PublishOrderCreated"
                                            ELSE ""]
       IN  IF ~payload.json_ok
               THEN /\ d1 = 0 /\ d2 = 0 /\ ~dbFails /\ ~busFails
                    /\ last' = Exchange(req[r], req[r].key, payload, None,
                                        <<"invalid JSON payload">>,
                                        StatusBadRequest, JSONHeaders,
                                        jsonEncodeError(<<"invalid JSON payload">>))
                    /\ req' = [req EXCEPT ![r] = IdleReq]
                    /\ UNCHANGED <<orders, published, now, createdFor>>
           ELSE /\ out.orders = orders => (d1 = 0 /\ d2 = 0)
                /\ out.orders # orders => Cardinality(DOMAIN orders) < MaxOrders
                /\ dbFails => "Create" \in {out.calls[i] : i \in DOMAIN out.calls}
                /\ busFails => "PublishOrderCreated" \in {out.calls[i] : i \in DOMAIN out.calls}
                /\ orders' = out.orders
                /\ published' = out.published
                /\ now' = now + d1 + d2
                /\ createdFor' = [createdFor EXCEPT ![req[r].key] =
                                      @ \cup (DOMAIN out.orders \ DOMAIN orders)]
                /\ IF out.err # NoErr /\ out.order = None
                       THEN /\ last' = Exchange(ran, req[r].key, payload, out.order, out.err,
                                                StatusBadRequest, JSONHeaders,
                                                jsonEncodeError(out.err))
                            /\ req' = [req EXCEPT ![r] = IdleReq]
                   ELSE /\ req' = [req EXCEPT ![r] = [ran EXCEPT !.pc = "executed"]]
                        /\ UNCHANGED last
    /\ UNCHANGED <<repoImpl, idemImpl, items, firstOK, firstSaved, overlapped,
                   directVars>>

createOrderRun(r, payload, d1, d2, dbFails, busFails) ==
    /\ req[r].pc = "miss"
    /\ now + d1 + d2 <= MaxClock
    /\ dbFails => repoImpl = "postgres"
    /\ LET out == ServiceCreateOrder(repoImpl, orders, published, payload,
                                     now + d1, now + d1 + d2, dbFails, busFails)
           ran == [req[r] EXCEPT !.order = out.order, !.calls = @ \o out.calls,
                                 !.failed = IF dbFails THEN "Create"
                                            ELSE IF busFails THEN "PublishOrderCreated"
                                            ELSE ""]
       IN  IF ~payload.json_ok
               THEN /\ d1 = 0 /\ d2 = 0 /\ ~dbFails /\ ~busFails
                    /\ last' = Exchange(req[r], req[r].key, payload, None,
                                        <<"invalid JSON payload">>,
                                        StatusBadRequest, JSONHeaders,
                                        jsonEncodeError(<<"invalid JSON payload">>))
                    /\ req' = [req EXCEPT ![r] = IdleReq]
                    /\ UNCHANGED <<orders, published, now, createdFor>>
           ELSE /\ out.orders = orders => (d1 = 0 /\ d2 = 0)
                /\ out.orders # orders => Cardinality(DOMAIN orders) < MaxOrders
                /\ dbFails => "Create" \in {out.calls[i] : i \in DOMAIN out.calls}
                /\ busFails => "PublishOrderCreated" \in {out.calls[i] : i \in DOMAIN out.calls}
                /\ orders' = out.orders
                /\ published' = out.published
                /\ now' = now + d1 + d2
                /\ createdFor' = [createdFor EXCEPT ![req[r].key] =
                                      @ \cup (DOMAIN out.orders \ DOMAIN orders)]
                /\ IF out.err # NoErr
                       THEN /\ last' = Exchange(ran, req[r].key, payload, out.order, out.err,
                                                StatusBadRequest, JSONHeaders,
                                                jsonEncodeError(out.err))
                            /\ req' = [req EXCEPT ![r] = IdleReq]
                   ELSE /\ req' = [req EXCEPT ![r] = [ran EXCEPT !.pc = "executed"]]
                        /\ UNCHANGED last
    /\ UNCHANGED <<repoImpl, idemImpl, items, firstOK, firstSaved, overlapped,
                   directVars>>

createOrderSave(r, dbFails) ==
    /\ req[r].pc = "executed"
    /\ dbFails => idemImpl = "postgres"
    /\ LET order == req[r].order[1]
           body == jsonMarshalOrder(order)
           stored == [StatusCode |-> StatusAccepted, Body |-> body, OrderID |-> order.id]
           s == StoreSave(idemImpl, items, req[r].key, stored, dbFails)
           st == [req[r] EXCEPT !.calls = Append(@, "Save"),
                                !.failed = IF dbFails THEN "Save" ELSE ""]
           payload == [json_ok |-> TRUE, customer_email |-> order.customer_email,
                       amount_cents |-> order.amount_cents]
       IN  /\ items' = s.items
           /\ firstSaved' = IF s.err = NoErr /\ firstSaved[req[r].key] = None
                                THEN [firstSaved EXCEPT ![req[r].key] = Some(stored)]
                            ELSE firstSaved
           /\ firstOK' = IF s.err = NoErr /\ firstOK[req[r].key] = None
                             THEN [firstOK EXCEPT ![req[r].key] =
                                       Some([code |-> StatusAccepted, body |-> body])]
                         ELSE firstOK
           /\ last' = IF s.err # NoErr
                          THEN Exchange(st, req[r].key, payload, req[r].order, s.err,
                                        StatusInternalServerError, JSONHeaders,
                                        jsonEncodeError(s.err))
                      ELSE Exchange(st, req[r].key, payload, req[r].order, NoErr,
                                    StatusAccepted, JSONHeaders, body)
           /\ req' = [req EXCEPT ![r] = IdleReq]
    /\ UNCHANGED <<repoImpl, idemImpl, orders, published, now, overlapped, createdFor,
                   directVars>>

----------------------------------------------------------------------------
(* Direct clients of the ports and of the service: the callers the unit    *)
(* tests stand for.  Each completed call is recorded in got or in call.    *)

StoredResponses ==
    {[StatusCode |-> StatusAccepted,
      Body |-> jsonMarshalOrder(NewOrder(HexEncode(<<n>>), in, 0, 0)),
      OrderID |-> HexEncode(<<n>>)] :
          n \in 0..MaxOrders, in \in {i \in Inputs : Validate(i) = NoErr}}
    \cup
    {[StatusCode |-> StatusBadRequest, Body |-> jsonEncodeError(<<m>>), OrderID |-> <<>>] :
          m \in {"customer_email is required", "customer_email must be valid",
                 "amount_cents must be positive"}}

NoGot ==
    [op |-> "", key |-> <<>>, response |-> None, stored |-> None, err |-> NoErr,
     unused |-> FALSE]

storeSave(key, response, dbFails) ==
    /\ dbFails => idemImpl = "postgres"
    /\ LET s == StoreSave(idemImpl, items, key, response, dbFails)
       IN  /\ items' = s.items
           /\ firstSaved' = IF s.err = NoErr /\ firstSaved[key] = None
                                THEN [firstSaved EXCEPT ![key] = Some(response)]
                            ELSE firstSaved
           /\ got' = [op |-> "Save", key |-> key, response |-> Some(response),
                      stored |-> None, err |-> s.err,
                      unused |-> key \notin DOMAIN items]
    /\ UNCHANGED <<repoImpl, idemImpl, orders, published, now, httpVars, call, cancel, listed, update, twin>>

storeGet(key, dbFails) ==
    /\ dbFails => idemImpl = "postgres"
    /\ LET g == StoreGet(idemImpl, items, key, dbFails)
       IN  got' = [op |-> "Get", key |-> key, response |-> None,
                   stored |-> g.stored, err |-> g.err,
                   unused |-> key \notin DOMAIN items]
    /\ UNCHANGED <<repoImpl, idemImpl, orders, items, published, now, httpVars,
                   firstSaved, call, cancel, listed, update, twin>>

OrderIDs == {HexEncode(<<n>>) : n \in 0..(MaxOrders - 1)}

Cancels == 1..NumCancels

IdleCancel == [pc |-> "idle", id |-> <<>>, order |-> None, racy |-> FALSE]

NoCall ==
    [op |-> "", input |-> MalformedJSON, id |-> <<>>, status |-> "", order |-> None,
     err |-> NoErr, calls |-> <<>>, before |-> None, racy |-> FALSE,
     dbFailed |-> FALSE, busFailed |-> FALSE, wrapped |-> None]

IdleUpdate == [pc |-> "idle", id |-> <<>>, status |-> "", t |-> 0]

NoTwin ==
    [memory |-> EmptyMap, postgres |-> EmptyMap, op |-> "",
     fromMemory |-> [orders |-> <<>>, err |-> NoErr],
     fromPostgres |-> [orders |-> <<>>, err |-> NoErr]]

Stored(os, id) == IF id \in DOMAIN os THEN Some(os[id]) ELSE None

\* Another writer touched order id while an execution had read it and not
\* yet written.
Disturb(cs, id) ==
    [c \in Cancels |->
        IF cs[c].pc = "checked" /\ cs[c].id = id THEN [cs[c] EXCEPT !.racy = TRUE]
        ELSE cs[c]]

callCreate(op, out, input, d1, d2, dbFails, busFails) ==
    /\ now + d1 + d2 <= MaxClock
    /\ dbFails => repoImpl = "postgres"
    /\ out.orders = orders => (d1 = 0 /\ d2 = 0)
    /\ out.orders # orders => Cardinality(DOMAIN orders) < MaxOrders
    /\ dbFails => "Create" \in {out.calls[i] : i \in DOMAIN out.calls}
    /\ busFails => "PublishOrderCreated" \in {out.calls[i] : i \in DOMAIN out.calls}
    /\ orders' = out.orders
    /\ published' = out.published
    /\ now' = now + d1 + d2
    /\ call' = [NoCall EXCEPT !.op = op, !.input = input, !.order = out.order,
                              !.err = out.err, !.calls = out.calls,
                              !.dbFailed = dbFails, !.busFailed = busFails]
    /\ UNCHANGED <<repoImpl, idemImpl, items, firstSaved, httpVars, got, cancel, listed, update, twin>>

callServiceCreateOrder(input, d1, d2, dbFails, busFails) ==
    callCreate("Service.CreateOrder",
               ServiceCreateOrder(repoImpl, orders, published, input,
                                  now + d1, now + d1 + d2, dbFails, busFails),
               input, d1, d2, dbFails, busFails)

callHandle(cmd, d1, d2, dbFails, busFails) ==
    callCreate("Handle",
               Handle(repoImpl, orders, published, cmd,
                      now + d1, now + d1 + d2, dbFails, busFails),
               cmd, d1, d2, dbFails, busFails)

callObservableHandle(cmd, d1, d2, dbFails, busFails) ==
    /\ now + d1 + d2 <= MaxClock
    /\ dbFails => repoImpl = "postgres"
    /\ LET inner == Handle(repoImpl, orders, published, cmd,
                           now + d1, now + d1 + d2, dbFails, busFails)
           out == ObservableHandle(repoImpl, orders, published, cmd,
                                   now + d1, now + d1 + d2, dbFails, busFails)
       IN  /\ out.orders = orders => (d1 = 0 /\ d2 = 0)
           /\ out.orders # orders => Cardinality(DOMAIN orders) < MaxOrders
           /\ dbFails => "Create" \in {out.calls[i] : i \in DOMAIN out.calls}
           /\ busFails => "PublishOrderCreated" \in {out.calls[i] : i \in DOMAIN out.calls}
           /\ orders' = out.orders
           /\ published' = out.published
           /\ now' = now + d1 + d2
           /\ call' = [NoCall EXCEPT !.op = "ObservableCommandHandler.Handle",
                                     !.input = cmd, !.order = out.order,
                                     !.err = out.err, !.calls = out.calls,
                                     !.dbFailed = dbFails, !.busFailed = busFails,
                                     !.wrapped = Some([order |-> inner.order,
                                                       err |-> inner.err])]
    /\ UNCHANGED <<repoImpl, idemImpl, items, firstSaved, httpVars, got, cancel, listed, update, twin>>

callUpdateStatus(id, status, d, dbFails) ==
    /\ now + d <= MaxClock
    /\ dbFails => repoImpl = "postgres"
    /\ LET u == RepoUpdateStatus(repoImpl, orders, id, status, now + d, dbFails)
       IN  /\ u.err # NoErr => d = 0
           /\ orders' = u.orders
           /\ now' = now + d
           /\ call' = [NoCall EXCEPT !.op = "UpdateStatus", !.id = id, !.status = status,
                                     !.err = u.err, !.calls = <<"UpdateStatus">>,
                                     !.before = Stored(orders, id)]
           /\ cancel' = IF u.err = NoErr THEN Disturb(cancel, id) ELSE cancel
    /\ UNCHANGED <<repoImpl, idemImpl, items, published, firstSaved, httpVars, got, listed, update, twin>>

\* postgres Repository.UpdateStatus in two steps: the caller reads its clock
\* when it builds the arguments of Exec, the database runs the UPDATE later.
\* (memory Repository.UpdateStatus reads the clock while it holds the lock:
\* that is callUpdateStatus.)
updateStatusArgs(id, status) ==
    /\ repoImpl = "postgres"
    /\ update.pc = "idle"
    /\ update' = [pc |-> "stamped", id |-> id, status |-> status, t |-> now]
    /\ UNCHANGED <<repoImpl, idemImpl, orders, items, published, now, firstSaved,
                   httpVars, got, call, cancel, listed, twin>>

updateStatusExec(d) ==
    /\ update.pc = "stamped"
    /\ now + d <= MaxClock
    /\ LET u == PostgresUpdateStatus(orders, update.id, update.status, update.t, FALSE)
       IN  /\ u.err # NoErr => d = 0
           /\ orders' = u.orders
           /\ now' = now + d
           /\ call' = [NoCall EXCEPT !.op = "UpdateStatus", !.id = update.id,
                                     !.status = update.status, !.err = u.err,
                                     !.calls = <<"UpdateStatus">>,
                                     !.before = Stored(orders, update.id)]
           /\ cancel' = IF u.err = NoErr THEN Disturb(cancel, update.id) ELSE cancel
           /\ update' = IdleUpdate
    /\ UNCHANGED <<repoImpl, idemImpl, items, published, firstSaved, httpVars, got,
                   listed, twin>>

callRepoCreate(order, dbFails) ==
    /\ dbFails => repoImpl = "postgres"
    /\ LET c == RepoCreate(repoImpl, orders, order, dbFails)
       IN  /\ orders' = c.orders
           /\ call' = [NoCall EXCEPT !.op = "Create", !.id = order.id,
                                     !.order = Some(order), !.err = c.err,
                                     !.calls = <<"Create">>,
                                     !.before = Stored(orders, order.id),
                                     !.dbFailed = dbFails]
    /\ UNCHANGED <<repoImpl, idemImpl, items, published, now, firstSaved,
                   httpVars, got, cancel, listed, update, twin>>

CannotCancel ==
    [s \in Statuses |->
        CASE s = StatusPending -> "cannot cancel order in status pending"
          [] s = StatusProcessing -> "cannot cancel order in status processing"
          [] s = StatusCompleted -> "cannot cancel order in status completed"
          [] s = StatusFailed -> "cannot cancel order in status failed"
          [] s = StatusCanceled -> "cannot cancel order in status canceled"]

\* Service.CancelOrder up to its write: GetByID and the check of the status.
cancelOrderGet(c, id, dbFails) ==
    /\ cancel[c].pc = "idle"
    /\ dbFails => repoImpl = "postgres"
    /\ LET g == RepoGetByID(repoImpl, orders, id, dbFails)
           done == [NoCall EXCEPT !.op = "CancelOrder", !.id = id,
                                  !.calls = <<"GetByID">>,
                                  !.before = Stored(orders, id)]
       IN  IF g.err # NoErr
               THEN /\ call' = [done EXCEPT !.err = g.err]
                    /\ UNCHANGED cancel
           ELSE IF g.order[1].status # StatusPending
               THEN /\ call' = [done EXCEPT !.err = <<CannotCancel[g.order[1].status]>>]
                    /\ UNCHANGED cancel
           ELSE /\ cancel' = [cancel EXCEPT ![c] =
                                 [pc |-> "checked", id |-> id, order |-> g.order,
                                  racy |-> FALSE]]
                /\ UNCHANGED call
    /\ UNCHANGED <<repoImpl, idemImpl, orders, items, published, now, firstSaved,
                   httpVars, got, listed, update, twin>>

\* Service.CancelOrder from its write on: UpdateStatus, then the update of
\* the order it read, stamped with a clock reading of its own.
cancelOrderUpdate(c, d1, d2, dbFails) ==
    /\ cancel[c].pc = "checked"
    /\ now + d1 + d2 <= MaxClock
    /\ dbFails => repoImpl = "postgres"
    /\ LET id == cancel[c].id
           u == RepoUpdateStatus(repoImpl, orders, id, StatusCanceled, now + d1, dbFails)
           done == [NoCall EXCEPT !.op = "CancelOrder", !.id = id,
                                  !.calls = <<"GetByID", "UpdateStatus">>,
                                  !.before = Stored(orders, id),
                                  !.racy = cancel[c].racy]
           order == [cancel[c].order[1] EXCEPT !.status = StatusCanceled,
                                               !.updated_at = now + d1 + d2]
       IN  /\ u.err # NoErr => (d1 = 0 /\ d2 = 0)
           /\ orders' = u.orders
           /\ now' = now + d1 + d2
           /\ call' = IF u.err # NoErr THEN [done EXCEPT !.err = u.err]
                      ELSE [done EXCEPT !.order = Some(order)]
           /\ cancel' = [(IF u.err = NoErr THEN Disturb(cancel, id) ELSE cancel)
                             EXCEPT ![c] = IdleCancel]
    /\ UNCHANGED <<repoImpl, idemImpl, items, published, firstSaved, httpVars, got, listed, update, twin>>

\* One call made on a memory Repository and on a postgres Repository that
\* received the same calls so far.
twinCall(op, m, p) ==
    twin' = [memory |-> m.orders, postgres |-> p.orders, op |-> op,
             fromMemory |-> [orders |-> m.result, err |-> m.err],
             fromPostgres |-> [orders |-> p.result, err |-> p.err]]

twinCreate(order) ==
    /\ LET m == MemoryCreate(twin.memory, order)
           p == PostgresCreate(twin.postgres, order, FALSE)
       IN  twinCall("Create", [orders |-> m.orders, result |-> <<>>, err |-> m.err],
                    [orders |-> p.orders, result |-> <<>>, err |-> p.err])
    /\ UNCHANGED <<repoImpl, idemImpl, orders, items, published, now, firstSaved,
                   httpVars, got, call, cancel, listed, update>>

twinGetByID(id) ==
    /\ LET m == MemoryGetByID(twin.memory, id)
           p == PostgresGetByID(twin.postgres, id, FALSE)
       IN  twinCall("GetByID", [orders |-> twin.memory, result |-> m.order, err |-> m.err],
                    [orders |-> twin.postgres, result |-> p.order, err |-> p.err])
    /\ UNCHANGED <<repoImpl, idemImpl, orders, items, published, now, firstSaved,
                   httpVars, got, call, cancel, listed, update>>

twinList(filter) ==
    /\ \E m \in MemoryList(twin.memory, filter),
          p \in PostgresList(twin.postgres, filter, FALSE) :
           twinCall("List", [orders |-> twin.memory, result |-> m.orders, err |-> m.err],
                    [orders |-> twin.postgres, result |-> p.orders, err |-> p.err])
    /\ UNCHANGED <<repoImpl, idemImpl, orders, items, published, now, firstSaved,
                   httpVars, got, call, cancel, listed, update>>

twinUpdateStatus(id, status, d) ==
    /\ now + d <= MaxClock
    /\ now' = now + d
    /\ LET m == MemoryUpdateStatus(twin.memory, id, status, now + d)
           p == PostgresUpdateStatus(twin.postgres, id, status, now + d, FALSE)
       IN  twinCall("UpdateStatus", [orders |-> m.orders, result |-> <<>>, err |-> m.err],
                    [orders |-> p.orders, result |-> <<>>, err |-> p.err])
    /\ UNCHANGED <<repoImpl, idemImpl, orders, items, published, firstSaved,
                   httpVars, got, call, cancel, listed, update>>

NoFilter == [status |-> None, page |-> 0, page_size |-> 0]

NoList == [filter |-> NoFilter, orders |-> <<>>, err |-> NoErr, called |-> FALSE]

callList(filter, dbFails) ==
    /\ dbFails => repoImpl = "postgres"
    /\ \E out \in RepoList(repoImpl, orders, filter, dbFails) :
           listed' = [filter |-> filter, orders |-> out.orders, err |-> out.err,
                      called |-> TRUE]
    /\ UNCHANGED <<repoImpl, idemImpl, orders, items, published, now, firstSaved,
                   httpVars, got, call, cancel, update, twin>>

----------------------------------------------------------------------------
(* The HTTP create path with healthy ports (Spec), and with ports whose    *)
(* calls may fail (SpecFaults).                                            *)

Init ==
    /\ repoImpl \in Impls
    /\ idemImpl = repoImpl
    /\ orders = EmptyMap
    /\ items = EmptyMap
    /\ published = {}
    /\ now = 0
    /\ req = [r \in Reqs |-> IdleReq]
    /\ last = NoExchange
    /\ firstOK = [k \in Keys |-> None]
    /\ firstSaved = [k \in Keys |-> None]
    /\ overlapped = [k \in Keys |-> FALSE]
    /\ createdFor = [k \in Keys |-> {}]
    /\ got = NoGot
    /\ call = NoCall
    /\ cancel = [c \in Cancels |-> IdleCancel]
    /\ listed = NoList
    /\ update = IdleUpdate
    /\ twin = NoTwin

\* The bodies to send along with header h.  A lookup that misses leaves the
\* body on the connection for the next step, which draws it when it reads
\* it: one body stands for all of them there.
Bodies(h) ==
    IF TrimSpace(h) = <<>> \/ TrimSpace(h) \in DOMAIN items THEN RequestBodies
    ELSE {MalformedJSON}

Lookup ==
    \E r \in Reqs, h \in KeyHeaders : \E sent \in Bodies(h) :
        createOrderGet(r, h, sent, FALSE)

Run ==
    \E r \in Reqs, payload \in RequestBodies, d1 \in 0..1, d2 \in 0..1 :
        createOrderRun(r, payload, d1, d2, FALSE, FALSE)

Save == \E r \in Reqs : createOrderSave(r, FALSE)

\* A lookup that fails leaves the body unread as well.
LookupFails ==
    \E r \in Reqs, h \in KeyHeaders : createOrderGet(r, h, MalformedJSON, TRUE)

RunCreateFails ==
    \E r \in Reqs, payload \in RequestBodies :
        createOrderRun(r, payload, 0, 0, TRUE, FALSE)

RunPublishFails ==
    \E r \in Reqs, payload \in RequestBodies, d1 \in 0..1, d2 \in 0..1 :
        createOrderRun(r, payload, d1, d2, FALSE, TRUE)

SaveFails == \E r \in Reqs : createOrderSave(r, TRUE)

Next == Lookup \/ Run \/ Save

Spec == Init /\ [][Next]_vars

NextFaults == Next \/ LookupFails \/ RunCreateFails \/ RunPublishFails \/ SaveFails

SpecFaults == Init /\ [][NextFaults]_vars

----------------------------------------------------------------------------
(* The Idempotency Store under direct Save and Get calls. *)

ClientSave == \E key \in Keys, response \in StoredResponses : storeSave(key, response, FALSE)

ClientGet == \E key \in Keys : storeGet(key, FALSE)

NextStore == ClientSave \/ ClientGet

SpecStore == Init /\ [][NextStore]_vars

----------------------------------------------------------------------------
(* The create pipeline called directly, through either entry point, with   *)
(* every outcome of the Order Store and of the Event Publisher.            *)

CreateOrder ==
    \E input \in Inputs, d1 \in 0..1, d2 \in 0..1, dbFails \in BOOLEAN, busFails \in BOOLEAN :
        callServiceCreateOrder(input, d1, d2, dbFails, busFails)

HandleCommand ==
    \E cmd \in Inputs, d1 \in 0..1, d2 \in 0..1, dbFails \in BOOLEAN, busFails \in BOOLEAN :
        callHandle(cmd, d1, d2, dbFails, busFails)

NextPipeline == CreateOrder \/ HandleCommand

SpecPipeline == Init /\ [][NextPipeline]_vars

----------------------------------------------------------------------------
(* The life of an order's status: orders are created, any client of the   *)
(* Order Store may call UpdateStatus, and cancellations run concurrently.  *)

PlaceOrder ==
    \E input \in {i \in Inputs : Validate(i) = NoErr}, d \in 0..1 :
        callServiceCreateOrder(input, d, 0, FALSE, FALSE)

UpdateStatus ==
    \E id \in OrderIDs, status \in Statuses, d \in 0..1 :
        callUpdateStatus(id, status, d, FALSE)

CancelRead == \E c \in Cancels, id \in OrderIDs : cancelOrderGet(c, id, FALSE)

CancelWrite == \E c \in Cancels, d1 \in 0..1, d2 \in 0..1 : cancelOrderUpdate(c, d1, d2, FALSE)

NextStatus == PlaceOrder \/ UpdateStatus \/ CancelRead \/ CancelWrite

SpecStatus == Init /\ [][NextStatus]_vars

----------------------------------------------------------------------------
(* The Order Store behind the service: orders are submitted with any       *)
(* input through either entry point, any client of the Order Store may    *)
(* call UpdateStatus, and orders are cancelled.                            *)

SubmitOrder ==
    \E input \in Inputs, d \in 0..1 : callServiceCreateOrder(input, d, 0, FALSE, FALSE)

SubmitCommand ==
    \E cmd \in Inputs, d \in 0..1 : callHandle(cmd, d, 0, FALSE, FALSE)

CancelOrder ==
    \/ \E id \in OrderIDs : cancelOrderGet(1, id, FALSE)
    \/ \E d \in 0..1 : cancelOrderUpdate(1, d, 0, FALSE)

NextOrders == SubmitOrder \/ SubmitCommand \/ UpdateStatus \/ CancelOrder

SpecOrders == Init /\ [][NextOrders]_vars

----------------------------------------------------------------------------
(* Commands handled through the observable decorator, with every outcome   *)
(* of the ports of the wrapped handler.                                    *)

ObservedCommand ==
    \E cmd \in Inputs, d1 \in 0..1, d2 \in 0..1, dbFails \in BOOLEAN, busFails \in BOOLEAN :
        callObservableHandle(cmd, d1, d2, dbFails, busFails)

NextObserved == ObservedCommand

SpecObserved == Init /\ [][NextObserved]_vars

----------------------------------------------------------------------------
(* Creations, status updates and cancellations against one clock, the      *)
(* clock reading of a postgres UpdateStatus taken before its UPDATE runs.  *)

UpdateArgs == \E id \in DOMAIN orders, status \in Statuses : updateStatusArgs(id, status)

UpdateExec == \E d \in 0..1 : updateStatusExec(d)

NextClock == PlaceOrder \/ UpdateStatus \/ UpdateArgs \/ UpdateExec \/ CancelOrder

SpecClock == Init /\ [][NextClock]_vars

----------------------------------------------------------------------------
(* Cancellations interleaved with processors that call UpdateStatus only   *)
(* for a transition of the order state machine out of the status stored at *)
(* the time of their call.                                                 *)

LegalTransitions ==
    {<<StatusPending, StatusProcessing>>, <<StatusPending, StatusCanceled>>,
     <<StatusProcessing, StatusCompleted>>, <<StatusProcessing, StatusFailed>>}

ProcessorUpdate ==
    \E id \in DOMAIN orders, status \in Statuses \ {StatusCanceled}, d \in 0..1 :
        /\ <<orders[id].status, status>> \in LegalTransitions
        /\ callUpdateStatus(id, status, d, FALSE)

NextProcessors == PlaceOrder \/ ProcessorUpdate \/ CancelRead \/ CancelWrite

SpecProcessors == Init /\ [][NextProcessors]_vars

----------------------------------------------------------------------------
(* Overlapping cancellations, with no other writer of the orders *)

NextCancels == PlaceOrder \/ CancelRead \/ CancelWrite

SpecCancels == Init /\ [][NextCancels]_vars

----------------------------------------------------------------------------
(* Repository.Create called directly, also with an identifier in use *)

NewOrders ==
    {NewOrder(id, in, t, t) : id \in OrderIDs, in \in Inputs, t \in 0..MaxClock}

RepoCreateOrder == \E order \in NewOrders : callRepoCreate(order, FALSE)

RepoCreateFails == \E order \in NewOrders : callRepoCreate(order, TRUE)

NextRepo == RepoCreateOrder \/ RepoCreateFails

SpecRepo == Init /\ [][NextRepo]_vars

----------------------------------------------------------------------------
(* List over an Order Store that holds up to MaxListed orders, as Create   *)
(* and UpdateStatus leave them.                                            *)

ListedStatuses == {StatusPending, StatusCanceled}

ListedOrders(id) ==
    {[NewOrder(id, in, t, t) EXCEPT !.status = st] :
        in \in {i \in Inputs : Validate(i) = NoErr}, t \in 0..MaxClock,
        st \in ListedStatuses}

Stores ==
    UNION {{os \in [{HexEncode(<<i>>) : i \in 0..(n - 1)} ->
                      UNION {ListedOrders(HexEncode(<<i>>)) : i \in 0..(n - 1)}] :
               \A id \in DOMAIN os : os[id].id = id} : n \in 0..MaxListed}

Filters ==
    {[status |-> st, page |-> p, page_size |-> sz] :
        st \in {None} \cup {Some(x) : x \in ListedStatuses \cup {StatusCompleted}},
        p \in 0..MaxPage, sz \in 0..MaxPageSize}

InitList ==
    /\ repoImpl \in Impls
    /\ idemImpl = repoImpl
    /\ orders \in Stores
    /\ items = EmptyMap
    /\ published = DOMAIN orders
    /\ now = MaxClock
    /\ req = [r \in Reqs |-> IdleReq]
    /\ last = NoExchange
    /\ firstOK = [k \in Keys |-> None]
    /\ firstSaved = [k \in Keys |-> None]
    /\ overlapped = [k \in Keys |-> FALSE]
    /\ createdFor = [k \in Keys |-> {}]
    /\ got = NoGot
    /\ call = NoCall
    /\ cancel = [c \in Cancels |-> IdleCancel]
    /\ listed = NoList
    /\ update = IdleUpdate
    /\ twin = NoTwin

ListOrders == \E filter \in Filters : callList(filter, FALSE)

NextList == ListOrders

SpecList == InitList /\ [][NextList]_vars

----------------------------------------------------------------------------
(* The two repositories given the same calls, with the same clock readings *)

TwinCreate ==
    \E order \in {o \in NewOrders : Validate(o) = NoErr /\ o.created_at >= now} :
        twinCreate(order)

TwinGetByID == \E id \in OrderIDs : twinGetByID(id)

TwinList ==
    \E filter \in {f \in Filters : f.page <= 1 /\ f.status \in {None, Some(StatusPending)}} :
        twinList(filter)

TwinUpdateStatus ==
    \E id \in OrderIDs, status \in Statuses, d \in 0..1 : twinUpdateStatus(id, status, d)

NextTwin == TwinCreate \/ TwinGetByID \/ TwinList \/ TwinUpdateStatus

InitTwin == Init /\ repoImpl = "postgres"

SpecTwin == InitTwin /\ [][NextTwin]_vars

----------------------------------------------------------------------------
(* Properties of the HTTP create path *)

Replayed(x) == x.calls = <<"Get">> /\ x.err = NoErr /\ x.key # <<>>

InvalidInput(payload) ==
    \/ TrimSpace(payload.customer_email) = <<>>
    \/ ~Contains(payload.customer_email, "@")
    \/ payload.amount_cents <= 0

ValidationErrors ==
    {<<"customer_email is required">>, <<"customer_email must be valid">>,
     <<"amount_cents must be positive">>}

\* C1: once a create request with key K has returned 202, every later request
\* with K that overlaps no other request with K is answered with the same
\* status code and the same body as that first one, and the Idempotency Store
\* holds the record for K.
SequentialReplayIsIdentical ==
    \A k \in Keys :
        (last.key = k /\ last.later /\ ~overlapped[k]) =>
            /\ last.code = firstOK[k][1].code
            /\ last.body = firstOK[k][1].body
            /\ k \in DOMAIN items
            /\ items[k].StatusCode = last.code
            /\ items[k].Body = last.body

SequentialReplayHappens ==
    \E k \in Keys :
        /\ last.key = k /\ last.later /\ ~overlapped[k]
        /\ Replayed(last) /\ last.code = StatusAccepted
        /\ last.header # k

\* C2: whatever the port calls of each attempt return, requests with key K
\* that never overlap persist at most one order on behalf of K.
AtMostOneOrderPerKey ==
    \A k \in Keys : ~overlapped[k] => Cardinality(createdFor[k]) <= 1

\* C4: after requests with the same unseen key raced (all missed the lookup
\* and ran the pipeline), each of them persisted its own order, and a request
\* with that key that starts once the racing ones have finished is answered
\* with the response that was saved first under the key.
RaceConvergesOnFirstSave ==
    \A k \in Keys :
        /\ \A q1, q2 \in InFlight(k) :
               (q1 # q2 /\ req[q1].order # None /\ req[q2].order # None) =>
                   req[q1].order[1].id # req[q2].order[1].id
        /\ (last.key = k /\ overlapped[k] /\ last.quiet /\ Replayed(last)) =>
               /\ last.code = firstSaved[k][1].StatusCode
               /\ last.body = firstSaved[k][1].Body

\* C6: when the pipeline persisted the order and the publish failed, the
\* request is still answered 202 with the persisted order, and that response
\* is saved under the key.
PublishFailureStillAccepted ==
    (last.order # None /\ last.err # NoErr
        /\ Head(last.err) = "order saved but failed to publish event") =>
            /\ last.code = StatusAccepted
            /\ last.body = jsonMarshalOrder(last.order[1])
            /\ last.key \in DOMAIN items
            /\ items[last.key].OrderID = last.order[1].id

\* C9: a request whose input has a blank email, an email without "@" or a
\* non-positive amount is answered with the validation error and no order;
\* the step that runs its pipeline changes neither the Order Store nor the
\* published events nor the Idempotency Store, and the execution ends there
\* (no Create, no PublishOrderCreated, no Save).
ValidationFailureHasNoSideEffects ==
    [][(last' # last /\ last'.payload.json_ok /\ InvalidInput(last'.payload)) =>
          /\ last'.code = StatusBadRequest
          /\ last'.err \in ValidationErrors
          /\ last'.body = jsonEncodeError(last'.err)
          /\ last'.order = None
          /\ last'.calls = <<"Get">>
          /\ orders' = orders /\ published' = published /\ items' = items
          /\ \A r \in Reqs : req'[r].pc = "executed" => req[r].pc = "executed"]_vars

ValidationFailureHappens ==
    /\ last.payload.json_ok /\ InvalidInput(last.payload)
    /\ last.err = <<"customer_email must be valid">>
    /\ DOMAIN orders # {}

\* C18: a create request whose lookup finds a record under its key (the step
\* that ends the exchange at the lookup) is answered with
\* the status code and the body of the record whatever body it sent (another
\* payload, an invalid one, malformed JSON); it makes no call after the
\* lookup and leaves the Order Store, the published events and the
\* Idempotency Store as they were.
ReplayIgnoresPayload ==
    [][(last' # last /\ req' = req /\ last'.calls = <<"Get">>
            /\ last'.key \in DOMAIN items) =>
           /\ last'.code = items[last'.key].StatusCode
           /\ last'.body = items[last'.key].Body
           /\ last'.order = None
           /\ UNCHANGED <<orders, published, items>>]_vars

ReplayOfInvalidPayload ==
    /\ last.calls = <<"Get">>
    /\ last.key \in DOMAIN items
    /\ last.sent.json_ok
    /\ Validate(last.sent) # NoErr
    /\ last.code = StatusAccepted
    /\ last.body = items[last.key].Body

Blank(h) == \A i \in DOMAIN h : h[i] = " "

\* C19: a create request whose Idempotency-Key header is missing, empty or
\* made of spaces only is answered 400 with the error "Idempotency-Key header
\* required"; the handler makes no call on the Idempotency Store, the Order
\* Store or the Event Publisher, and the three are as they were.
IdempotencyKeyRequired ==
    [][(last' # last /\ Blank(last'.header)) =>
           /\ last'.code = StatusBadRequest
           /\ last'.body = jsonEncodeError(<<"Idempotency-Key header required">>)
           /\ last'.calls = <<>>
           /\ last'.order = None
           /\ UNCHANGED <<orders, published, items, req>>]_vars

WhitespaceKeyRejected ==
    /\ last.header = <<" ">>
    /\ last.code = StatusBadRequest
    /\ last.calls = <<>>
    /\ last.sent.json_ok
    /\ Validate(last.sent) = NoErr
    /\ DOMAIN orders # {}

\* C25: every record the create path wrote in the Idempotency Store has
\* status code 202, an order_id that is the id of an order in the Order
\* Store, and a body that holds an order with that id.
LedgerRefersToStoredOrders ==
    \A k \in DOMAIN items :
        /\ items[k].StatusCode = StatusAccepted
        /\ items[k].OrderID \in DOMAIN orders
        /\ items[k].Body.tag = "order"
        /\ items[k].Body.order # None
        /\ items[k].Body.order[1].id = items[k].OrderID

LedgerAfterFailures ==
    /\ DOMAIN items # {}
    /\ Cardinality(DOMAIN orders) = MaxOrders
    /\ last.failed = "Save"

ReceivedResponseIsReplayed ==
    /\ [][(last' # last /\ last'.code = StatusAccepted /\ ~Replayed(last')) =>
              /\ last'.key \in DOMAIN items'
              /\ items'[last'.key].OrderID = last'.order[1].id]_vars
    /\ []((Replayed(last) /\ last.later) =>
              /\ last.body.order # None
              /\ last.body.order[1].id = firstOK[last.key][1].body.order[1].id)

----------------------------------------------------------------------------
(* Properties of the Idempotency Store *)

\* C3: for either store, every Save returns no error and leaves one record
\* under its key, that record is the response of the Save that committed
\* first under the key, and every later Get of the key returns it.
FirstWriterWins ==
    /\ got.op = "Save" => (got.err = NoErr /\ got.key \in DOMAIN items)
    /\ \A k \in Keys :
           firstSaved[k] # None => (k \in DOMAIN items /\ items[k] = firstSaved[k][1])
    /\ (got.op = "Get" /\ firstSaved[got.key] # None) =>
           (got.err = NoErr /\ got.stored = firstSaved[got.key])

\* C17: for either store, a Get of a key under which nothing is stored
\* returns no response and no error, and a Get that directly follows a Save
\* made on an unused key returns a response with the status code, the body
\* and the order id of the saved one.
StoreRoundTrip ==
    /\ []((got.op = "Get" /\ got.unused) => (got.stored = None /\ got.err = NoErr))
    /\ [][(got.op = "Save" /\ got.unused /\ got.err = NoErr
              /\ got'.op = "Get" /\ got'.key = got.key) =>
                 /\ got'.err = NoErr
                 /\ got'.stored # None
                 /\ got'.stored[1].StatusCode = got.response[1].StatusCode
                 /\ got'.stored[1].Body = got.response[1].Body
                 /\ got'.stored[1].OrderID = got.response[1].OrderID]_vars

StoreRoundTripHappens ==
    /\ got.op = "Get"
    /\ got.stored # None
    /\ got.stored[1].StatusCode = StatusAccepted
    /\ got.stored = firstSaved[got.key]
    /\ idemImpl = "postgres"

----------------------------------------------------------------------------
(* Properties of the create pipeline *)

CreateOps == {"Service.CreateOrder", "Handle"}

\* C5: when Create succeeded and PublishOrderCreated failed, the pipeline
\* (either entry point) returns the order together with an error that wraps
\* the publisher's error, the order is in the Order Store, and no step of the
\* pipeline removes or alters an order that is in the Order Store.
PublishFailureKeepsOrder ==
    /\ []((call.op \in CreateOps /\ call.busFailed) =>
            /\ call.order # None
            /\ call.err # NoErr
            /\ Tail(call.err) = ErrBus
            /\ call.order[1].id \in DOMAIN orders
            /\ orders[call.order[1].id] = call.order[1]
            /\ call.order[1].id \notin published)
    /\ [][\A id \in DOMAIN orders :
              id \in DOMAIN orders' /\ orders'[id] = orders[id]]_vars

PublishFailureHappens ==
    /\ call.op = "Handle" /\ call.busFailed
    /\ call.order # None
    /\ call.order[1].id \in DOMAIN orders
    /\ Cardinality(DOMAIN orders) = 2
    /\ published # {}

\* C10: for a valid input, with Create and PublishOrderCreated succeeding,
\* the pipeline returns no error and an order that is pending, has a
\* non-empty id and carries the input's email and amount; GetByID of that id
\* returns an order with the same id, email, amount and status.
SuccessfulCreationResult ==
    (call.op \in CreateOps /\ Validate(call.input) = NoErr
        /\ ~call.dbFailed /\ ~call.busFailed) =>
        /\ call.err = NoErr
        /\ call.order # None
        /\ call.order[1].status = StatusPending
        /\ call.order[1].id # <<>>
        /\ call.order[1].customer_email = call.input.customer_email
        /\ call.order[1].amount_cents = call.input.amount_cents
        /\ LET g == RepoGetByID(repoImpl, orders, call.order[1].id, FALSE)
           IN  /\ g.err = NoErr
               /\ g.order # None
               /\ g.order[1].id = call.order[1].id
               /\ g.order[1].customer_email = call.input.customer_email
               /\ g.order[1].amount_cents = call.input.amount_cents
               /\ g.order[1].status = StatusPending

SuccessfulCreationHappens ==
    /\ call.op = "Service.CreateOrder"
    /\ Validate(call.input) = NoErr /\ ~call.dbFailed /\ ~call.busFailed
    /\ call.order # None
    /\ call.order[1].id \in published
    /\ repoImpl = "postgres"

----------------------------------------------------------------------------
(* Properties of the status of an order *)

\* C7: once the stored status of an order is completed, failed or canceled,
\* no step changes it, and an UpdateStatus or CancelOrder call made on such
\* an order returns an error.
TerminalStatusIsFinal ==
    /\ [][\A id \in DOMAIN orders :
              IsTerminal(orders[id]) => orders'[id].status = orders[id].status]_vars
    /\ []((call.op \in {"UpdateStatus", "CancelOrder"} /\ call.before # None
              /\ IsTerminal(call.before[1])) => call.err # NoErr)

\* C8: a CancelOrder during which no other call wrote the order: if the
\* stored status was pending, it returns the order with status canceled and
\* the stored status is canceled; otherwise it returns the illegal-transition
\* error and no order, and the stored order is as it was.
CancelOnlyFromPending ==
    (call.op = "CancelOrder" /\ ~call.racy /\ call.before # None) =>
        IF call.before[1].status = StatusPending
            THEN /\ call.err = NoErr
                 /\ call.order # None
                 /\ call.order[1].status = StatusCanceled
                 /\ call.order[1].id = call.id
                 /\ orders[call.id].status = StatusCanceled
        ELSE /\ call.err = <<CannotCancel[call.before[1].status]>>
             /\ call.order = None
             /\ orders[call.id] = call.before[1]

CancelFromPendingHappens ==
    /\ call.op = "CancelOrder" /\ ~call.racy /\ call.before # None
    /\ call.before[1].status = StatusPending
    /\ call.err = NoErr
    /\ \E id \in DOMAIN orders : orders[id].status = StatusProcessing

\* C28: of the CancelOrder calls that overlap on a pending order one succeeds
\* and the others get the illegal-transition error: a CancelOrder that
\* returns success found the stored status pending at its write, and a
\* canceled order is not written again.
OneCancellationWins ==
    /\ []((call.op = "CancelOrder" /\ call.err = NoErr /\ call.before # None) =>
              call.before[1].status = StatusPending)
    /\ [][\A id \in DOMAIN orders :
              orders[id].status = StatusCanceled => orders'[id] = orders[id]]_vars

\* C29: the order a successful CancelOrder returns, when no other call wrote
\* the order meanwhile, equals in every field, updated_at included, the order
\* stored under its id when it returns (the one GetByID then returns).
CancelReturnsStoredOrder ==
    (call.op = "CancelOrder" /\ call.err = NoErr /\ ~call.racy /\ call.order # None) =>
        /\ RepoGetByID(repoImpl, orders, call.id, FALSE).err = NoErr
        /\ RepoGetByID(repoImpl, orders, call.id, FALSE).order = call.order

----------------------------------------------------------------------------
(* Properties of the Order Store behind the service *)

\* C11: every order held in the Order Store has amount_cents > 0 and an
\* email that is not blank and contains "@", whatever CreateOrder,
\* UpdateStatus and CancelOrder calls were made.
PersistedOrdersAreValid ==
    \A id \in DOMAIN orders :
        /\ orders[id].amount_cents > 0
        /\ TrimSpace(orders[id].customer_email) # <<>>
        /\ Contains(orders[id].customer_email, "@")
        /\ orders[id].id = id

PersistedOrdersAfterRejection ==
    /\ Cardinality(DOMAIN orders) = MaxOrders
    /\ call.op \in CreateOps /\ call.input.amount_cents <= 0 /\ call.err # NoErr
    /\ \E id \in DOMAIN orders : orders[id].status = StatusCanceled
    /\ \E id \in DOMAIN orders : orders[id].status = StatusCompleted

----------------------------------------------------------------------------
(* Properties of the steps of the HTTP create path *)

\* C12: when the Order Store's Create fails, CreateOrder returns no order
\* and an error whose chain ends in the store's error, the execution has
\* made no PublishOrderCreated call, and the step changes neither the Order
\* Store nor the published events nor the Idempotency Store; the execution
\* ends there, without a Save.
StoreErrorAbortsPipeline ==
    [][(last' # last /\ last'.failed = "Create") =>
          /\ last'.order = None
          /\ last'.err # NoErr
          /\ SubSeq(last'.err, Len(last'.err) - Len(ErrDatabase) + 1, Len(last'.err))
                 = ErrDatabase
          /\ last'.calls = <<"Get", "Create">>
          /\ last'.body = jsonEncodeError(last'.err)
          /\ orders' = orders /\ published' = published /\ items' = items
          /\ \A r \in Reqs : req'[r].pc = "executed" => req[r].pc = "executed"]_vars

StoreErrorHappens ==
    /\ last.failed = "Create"
    /\ last.code = StatusBadRequest
    /\ DOMAIN orders # {}
    /\ published # {}

IsPrefix(s, t) == Len(s) <= Len(t) /\ SubSeq(t, 1, Len(s)) = s

CreateSteps == <<"Get", "Create", "PublishOrderCreated", "Save">>

\* C13: in every execution of the create path the port calls made so far
\* are an initial part of Get, Create, PublishOrderCreated, Save; an event is
\* published only for an order the Order Store holds, and a response is
\* saved, or about to be saved, only for an order whose event was published.
StepsAreOrdered ==
    /\ IsPrefix(last.calls, CreateSteps)
    /\ \A r \in Reqs : IsPrefix(req[r].calls, CreateSteps)
    /\ published \subseteq DOMAIN orders
    /\ \A r \in Reqs :
           req[r].pc = "executed" =>
               /\ req[r].order # None
               /\ req[r].order[1].id \in published
               /\ req[r].key \notin DOMAIN items
                      \/ items[req[r].key].OrderID # req[r].order[1].id
    /\ \A k \in DOMAIN items : items[k].OrderID \in published

StepsAllTaken ==
    /\ last.calls = CreateSteps
    /\ last.failed = "Save"
    /\ \E r \in Reqs : req[r].pc = "executed"

----------------------------------------------------------------------------
(* Properties of List *)

\* C14: for either repository and every filter, the orders List returns
\* are in descending order of created_at, and no matching order is newer than
\* the first order of page 1.
ListIsNewestFirst ==
    listed.called =>
        /\ \A i, j \in 1..Len(listed.orders) :
               i < j => listed.orders[i].created_at >= listed.orders[j].created_at
        /\ (listed.filter.page = 1 /\ listed.orders # <<>>) =>
               \A id \in Matching(orders, listed.filter) :
                   orders[id].created_at <= listed.orders[1].created_at

Min(a, b) == IF a < b THEN a ELSE b

Max(a, b) == IF a > b THEN a ELSE b

\* C15: with n orders matching the filter, page p >= 1 and page size s >= 1,
\* List returns no error and min(s, max(0, n - (p-1)*s)) orders, each a stored
\* order that satisfies the status predicate, and no order twice.
ListPageSize ==
    (listed.called /\ listed.filter.page >= 1 /\ listed.filter.page_size >= 1) =>
        LET n == Cardinality(Matching(orders, listed.filter))
            p == listed.filter.page
            sz == listed.filter.page_size
        IN  /\ listed.err = NoErr
            /\ Len(listed.orders) = Min(sz, Max(0, n - (p - 1) * sz))
            /\ \A i \in 1..Len(listed.orders) :
                   /\ listed.orders[i].id \in Matching(orders, listed.filter)
                   /\ listed.orders[i] = orders[listed.orders[i].id]
            /\ \A i, j \in 1..Len(listed.orders) :
                   i # j => listed.orders[i].id # listed.orders[j].id

ListSecondPageOfThree ==
    /\ listed.called
    /\ Cardinality(DOMAIN orders) = 3
    /\ listed.filter = [status |-> None, page |-> 2, page_size |-> 2]
    /\ Len(listed.orders) = 1
    /\ repoImpl = "memory"

\* C23: every stored order has created_at <= updated_at, and no step changes
\* the created_at of a stored order or lowers its updated_at, for either
\* repository, whatever CreateOrder, UpdateStatus and CancelOrder calls
\* interleave.
TimestampsAreMonotone ==
    /\ [](\A id \in DOMAIN orders : orders[id].created_at <= orders[id].updated_at)
    /\ [][\A id \in DOMAIN orders :
              /\ orders'[id].created_at = orders[id].created_at
              /\ orders'[id].updated_at >= orders[id].updated_at]_vars

\* C22: ObservableCommandHandler.Handle returns the order and the error the
\* wrapped handler returned, whatever the command and the outcome; when the
\* wrapped handler returns an order with a publish-failure error, so does
\* the decorator.
DecoratorIsTransparent ==
    (call.op = "ObservableCommandHandler.Handle" /\ call.wrapped # None) =>
        /\ call.order = call.wrapped[1].order
        /\ call.err = call.wrapped[1].err

\* C21: while cancellations interleave with processors that request legal
\* transitions only, every change of a stored status is a legal transition
\* (pending to processing or canceled, processing to completed or failed);
\* a stored status becomes canceled only from pending.
StoredTransitionsAreLegal ==
    [][\A id \in DOMAIN orders :
           orders'[id].status # orders[id].status =>
               <<orders[id].status, orders'[id].status>> \in LegalTransitions]_vars

----------------------------------------------------------------------------
(* Properties of Repository.UpdateStatus *)

\* C20: an UpdateStatus(id, s) call on a stored order returns no error, sets
\* the status of that order to s and its updated_at to the time of the call,
\* and leaves its id, customer_email, amount_cents and created_at and every
\* other order as they were; on an id that is not in the store it returns
\* the not-found error and the store is as it was.
UpdateStatusEffectAndFrame ==
    [][(call'.op = "UpdateStatus" /\ (call' # call \/ orders' # orders)) =>
           LET id == call'.id
           IN  IF id \in DOMAIN orders
                   THEN /\ call'.err = NoErr
                        /\ DOMAIN orders' = DOMAIN orders
                        /\ orders'[id].status = call'.status
                        /\ orders'[id].updated_at = now'
                        /\ orders'[id].id = orders[id].id
                        /\ orders'[id].customer_email = orders[id].customer_email
                        /\ orders'[id].amount_cents = orders[id].amount_cents
                        /\ orders'[id].created_at = orders[id].created_at
                        /\ \A other \in DOMAIN orders \ {id} : orders'[other] = orders[other]
               ELSE /\ call'.err = ErrNotFound
                    /\ orders' = orders]_vars

UpdateStatusHappens ==
    /\ call.op = "UpdateStatus"
    /\ call.err = NoErr
    /\ call.before # None
    /\ call.before[1].status = StatusPending
    /\ orders[call.id].status = StatusCompleted
    /\ orders[call.id].updated_at > call.before[1].updated_at
    /\ Cardinality(DOMAIN orders) = 2

----------------------------------------------------------------------------
(* Properties of the two repositories side by side *)

ErrKind(err) ==
    IF err = NoErr THEN "none" ELSE IF err = ErrNotFound THEN "not found" ELSE "other"

\* C24: after any sequence of Create, GetByID, List and UpdateStatus calls
\* made with the same arguments and clock readings on both, the memory and
\* the postgres Repository return the same kind of error and the same orders
\* in the same order.
RepositoriesAgree ==
    twin.op # "" =>
        /\ ErrKind(twin.fromMemory.err) = ErrKind(twin.fromPostgres.err)
        /\ twin.fromMemory.orders = twin.fromPostgres.orders

----------------------------------------------------------------------------
(* Properties of Repository.Create *)

\* C16: for either repository, a Create whose identifier is already in the
\* store returns an error and the stored order is the one that was there
\* before the call.
CreateConflictIsRejected ==
    (call.op = "Create" /\ call.before # None) =>
        /\ call.err # NoErr
        /\ Stored(orders, call.id) = call.before

\* C30: on an unchanged store, two consecutive List calls with the same
\* filter return the same sequence, and two consecutive List calls for
\* different pages of the same status filter and page size s >= 1 have no
\* order in common, also when matching orders have the same created_at.
PagesPartitionResult ==
    [][(listed.called /\ listed'.called /\ orders' = orders
           /\ listed'.filter.status = listed.filter.status
           /\ listed'.filter.page_size = listed.filter.page_size
           /\ listed.filter.page_size >= 1
           /\ listed.filter.page >= 1 /\ listed'.filter.page >= 1) =>
              IF listed'.filter.page = listed.filter.page
                  THEN listed'.orders = listed.orders
              ELSE \A i \in 1..Len(listed.orders), j \in 1..Len(listed'.orders) :
                       listed.orders[i].id # listed'.orders[j].id]_vars

====
